---- MODULE Spec2Model ----
(***************************************************************************)
(* ConditionalEscrow (rust-escrow/conditional-escrow/src/lib.rs): a NEAR   *)
(* contract pooling deposits towards a funding limit before a deadline.    *)
(*                                                                         *)
(* The contract state is the record `self`; every public method is one     *)
(* action.  A method that panics aborts its receipt: the host does not     *)
(* write the contract state back, so `self` is unchanged.  Balances are    *)
(* u128 in the source; here they are BalanceBits wide, with the same       *)
(* wrapping arithmetic, and amounts are counted in units of 2.5 NEAR.      *)
(***************************************************************************)
EXTENDS Integers, Sequences, FiniteSets, TLC

\* ---------------------------------------------------------------- bounds
BalanceBits == 4
MaxFundingLimit == 3
MaxAttached == 2
MaxExpiresAt == 0
MaxTime == 1
MaxPromises == 2
MaxDeficit == 2

\* ------------------------------------------------------------- constants
\* 5 NEAR, in units of 2.5 NEAR
FT_ATTACHED_DEPOSIT == 2

Modulus == 2 ^ BalanceBits

current_account_id == "escrow"
AccountId == {"escrow", "bob", "carol"}
\* the signer of the calls that do not read their signer
Caller == "bob"
DaoNames == {"dao1", "dao2"}
dao_factory_account_id == "dao_factory"
ft_factory_account_id == "ft_factory"

NoError == "ok"
None == -1

\* PromiseResult of one remote call; a Successful payload is the JSON bool
\* the factory returned.
PromiseResult == {"Failed", "Successful(true)", "Successful(false)"}

VARIABLES
    self,       \* the ConditionalEscrow struct as persisted
    now,        \* env::block_timestamp()
    promises,   \* per dao_name, the callbacks scheduled and not yet run
    last,       \* outcome of the latest method invocation
    withdrawn,  \* accounts that have withdrawn and not deposited since
    held        \* value deposited less value sent out, no lower than -MaxDeficit

vars == <<self, now, promises, last, withdrawn, held>>

\* the account of value after an amount has left the contract
Spend(amount) == IF held - amount < -MaxDeficit THEN -MaxDeficit ELSE held - amount

\* ----------------------------------------------------------- arithmetic
wrapping_add(a, b) == (a + b) % Modulus

wrapping_sub(a, b) == (a - b + Modulus) % Modulus

checked_sub(a, b) == IF a >= b THEN a - b ELSE None

RECURSIVE SumOver(_, _)
SumOver(f, S) ==
    IF S = {} THEN 0
    ELSE LET x == CHOOSE y \in S : TRUE
         IN f[x] + SumOver(f, S \ {x})

\* ------------------------------------------------------------ accessors

\* variant: the constructor accepts every funding limit
new_error_any_limit(funding_amount_limit) == NoError

new_error(funding_amount_limit) ==
    IF funding_amount_limit < FT_ATTACHED_DEPOSIT
    THEN "ERR_INSUFFICIENT_FUNDS_LIMIT"
    ELSE NoError

new(expires_at, funding_amount_limit) ==
    [ deposits              |-> << >>,
      total_funds           |-> 0,
      funding_amount_limit  |-> funding_amount_limit,
      unpaid_funding_amount |-> funding_amount_limit,
      expires_at            |-> expires_at,
      dao_name              |-> "",
      is_dao_created        |-> FALSE ]

deposits_of(s, payee) ==
    IF payee \in DOMAIN s.deposits THEN s.deposits[payee] ELSE 0

insert(deposits, payee, value) ==
    [q \in (DOMAIN deposits) \cup {payee} |->
        IF q = payee THEN value ELSE deposits[q]]

get_total_funds(s) == s.total_funds

get_funding_amount_limit(s) == s.funding_amount_limit

get_unpaid_funding_amount(s) == s.unpaid_funding_amount

get_deposit_accounts(s) == DOMAIN s.deposits

\* variant: the deadline itself counts as expired
has_contract_expired_inclusive(s, t) == s.expires_at <= t

has_contract_expired(s, t) == s.expires_at < t

\* variant: the limit itself does not count as reached
is_funding_reached_strict(s) == get_total_funds(s) > get_funding_amount_limit(s)

is_funding_reached(s) == get_total_funds(s) >= get_funding_amount_limit(s)

is_deposit_allowed(s, t) ==
    ~has_contract_expired(s, t) /\ ~is_funding_reached(s)

\* variant: the funding test is dropped
is_withdrawal_allowed_expired_only(s, t) == has_contract_expired(s, t)

is_withdrawal_allowed(s, t) ==
    has_contract_expired(s, t) /\ ~is_funding_reached(s)

\* the guard of delegate_funds
is_delegation_allowed(s, t) ==
    ~(is_deposit_allowed(s, t) \/ is_withdrawal_allowed(s, t))

\* what one invocation did: its inputs, the panic message or NoError, the
\* transfers and remote calls it issued, and the value it returned
Outcome(op, signer, attached, name, results, err, transfers, calls, ret) ==
    [ op |-> op, signer |-> signer, attached |-> attached, dao_name |-> name,
      results |-> results, again |-> signer \in withdrawn,
      err |-> err, transfers |-> transfers, calls |-> calls, ret |-> ret ]

\* ---------------------------------------------------------------- deposit
\* the first precondition of deposit that fails, in the order of the checks
deposit_condition(s, t, signer, attached) ==
    IF current_account_id = signer THEN "self-deposit"
    ELSE IF attached = 0 THEN "zero amount"
    ELSE IF ~is_deposit_allowed(s, t) THEN "outside the open phase"
    ELSE IF attached > get_unpaid_funding_amount(s) THEN "exceeds headroom"
    ELSE "none"

\* variant: the headroom test is dropped
deposit_error_no_headroom(s, t, signer, attached) ==
    IF current_account_id = signer THEN "ERR_OWNER_SHOULD_NOT_DEPOSIT"
    ELSE IF attached = 0 THEN "ERR_DEPOSIT_SHOULD_NOT_BE_0"
    ELSE IF ~is_deposit_allowed(s, t) THEN "ERR_DEPOSIT_NOT_ALLOWED"
    ELSE NoError

deposit_error(s, t, signer, attached) ==
    IF current_account_id = signer THEN "ERR_OWNER_SHOULD_NOT_DEPOSIT"
    ELSE IF attached = 0 THEN "ERR_DEPOSIT_SHOULD_NOT_BE_0"
    ELSE IF ~is_deposit_allowed(s, t) THEN "ERR_DEPOSIT_NOT_ALLOWED"
    ELSE IF attached > get_unpaid_funding_amount(s) THEN "ERR_DEPOSIT_NOT_ALLOWED"
    ELSE NoError

\* variant: the new balance overwrites the current one
deposit_update_overwrite(s, payee, amount) ==
    [s EXCEPT
        !.deposits = insert(@, payee, amount),
        !.total_funds = wrapping_add(@, amount),
        !.unpaid_funding_amount = wrapping_sub(@, amount)]

deposit_update(s, payee, amount) ==
    [s EXCEPT
        !.deposits = insert(@, payee, wrapping_add(deposits_of(s, payee), amount)),
        !.total_funds = wrapping_add(@, amount),
        !.unpaid_funding_amount = wrapping_sub(@, amount)]

deposit(signer, attached) ==
    LET err == deposit_error(self, now, signer, attached) IN
    /\ self' = IF err = NoError THEN deposit_update(self, signer, attached) ELSE self
    /\ last' = Outcome("deposit", signer, attached, "", << >>, err, << >>, << >>, "-")
    /\ withdrawn' = IF err = NoError THEN withdrawn \ {signer} ELSE withdrawn
    /\ held' = IF err = NoError THEN held + attached ELSE held
    /\ UNCHANGED <<now, promises>>

\* --------------------------------------------------------------- withdraw
\* variant: only the deadline is tested
withdraw_error_expired_only(s, t) ==
    IF ~has_contract_expired(s, t) THEN "ERR_WITHDRAWAL_NOT_ALLOWED" ELSE NoError

withdraw_error(s, t) ==
    IF ~is_withdrawal_allowed(s, t) THEN "ERR_WITHDRAWAL_NOT_ALLOWED" ELSE NoError

\* variant: total_funds is not decreased
withdraw_update_keep_total(s, payee, payment) ==
    [s EXCEPT
        !.deposits = insert(@, payee, 0),
        !.unpaid_funding_amount = wrapping_add(@, payment)]

\* variant: the balance is not zeroed
withdraw_update_keep_balance(s, payee, payment) ==
    [s EXCEPT
        !.deposits = insert(@, payee, deposits_of(s, payee)),
        !.total_funds = wrapping_sub(@, payment),
        !.unpaid_funding_amount = wrapping_add(@, payment)]

withdraw_update(s, payee, payment) ==
    [s EXCEPT
        !.deposits = insert(@, payee, 0),
        !.total_funds = wrapping_sub(@, payment),
        !.unpaid_funding_amount = wrapping_add(@, payment)]

withdraw(signer, attached) ==
    LET err == withdraw_error(self, now)
        payment == deposits_of(self, signer)
    IN
    /\ self' = IF err = NoError THEN withdraw_update(self, signer, payment) ELSE self
    /\ last' = Outcome("withdraw", signer, attached, "", << >>, err,
                       IF err = NoError
                       THEN << [to |-> signer, amount |-> payment] >>
                       ELSE << >>,
                       << >>, "-")
    /\ withdrawn' = IF err = NoError THEN withdrawn \cup {signer} ELSE withdrawn
    /\ held' = IF err = NoError THEN Spend(payment) ELSE held
    /\ UNCHANGED <<now, promises>>

\* --------------------------------------------------------- delegate_funds
\* variant: only the deposit phase blocks delegation
delegate_funds_error_open_only(s, t) ==
    IF is_deposit_allowed(s, t)
    THEN "ERR_DELEGATE_NOT_ALLOWED"
    ELSE IF checked_sub(s.total_funds, FT_ATTACHED_DEPOSIT) = None
    THEN "ERR_TOTAL_FUNDS_OVERFLOW"
    ELSE NoError

delegate_funds_error(s, t) ==
    IF is_deposit_allowed(s, t) \/ is_withdrawal_allowed(s, t)
    THEN "ERR_DELEGATE_NOT_ALLOWED"
    ELSE IF checked_sub(s.total_funds, FT_ATTACHED_DEPOSIT) = None
    THEN "ERR_TOTAL_FUNDS_OVERFLOW"
    ELSE NoError


\* variant: the create_dao call carries the whole of total_funds
dao_promise_whole(s, dao_name) ==
    [ to |-> dao_factory_account_id, method |-> "create_dao",
      dao_name |-> dao_name, deposits |-> get_deposit_accounts(s),
      attached |-> s.total_funds ]

dao_promise(s, dao_name) ==
    [ to |-> dao_factory_account_id, method |-> "create_dao",
      dao_name |-> dao_name, deposits |-> get_deposit_accounts(s),
      attached |-> s.total_funds - FT_ATTACHED_DEPOSIT ]

ft_promise(s, dao_name) ==
    [ to |-> ft_factory_account_id, method |-> "create_ft",
      dao_name |-> dao_name, deposits |-> {},
      attached |-> FT_ATTACHED_DEPOSIT ]

callback(dao_name) ==
    [ to |-> current_account_id, method |-> "on_delegate_callback",
      dao_name |-> dao_name, deposits |-> {}, attached |-> 0 ]

\* the callbacks scheduled and not yet run
Pending == SumOver(promises, DaoNames)

delegate_funds(signer, attached, dao_name) ==
    LET err == delegate_funds_error(self, now) IN
    /\ err = NoError => Pending < MaxPromises
    /\ promises' = IF err = NoError
                   THEN [promises EXCEPT ![callback(dao_name).dao_name] = @ + 1]
                   ELSE promises
    /\ last' = Outcome("delegate_funds", signer, attached, dao_name, << >>, err, << >>,
                       IF err = NoError
                       THEN << dao_promise(self, dao_name),
                               ft_promise(self, dao_name),
                               callback(dao_name) >>
                       ELSE << >>,
                       "-")
    /\ withdrawn' = withdrawn
    /\ held' = IF err = NoError
               THEN Spend(dao_promise(self, dao_name).attached
                          + ft_promise(self, dao_name).attached)
               ELSE held
    /\ UNCHANGED <<self, now>>

\* --------------------------------------------------- on_delegate_callback
\* the first match: the struct as mutated in memory, the flag, or a panic
\* variant: a created DAO does not reset total_funds
create_dao_match_keep_funds(s, dao_name, result) ==
    IF result = "Successful(true)"
    THEN [ s |-> [s EXCEPT !.dao_name = dao_name, !.is_dao_created = TRUE],
           ok |-> TRUE, err |-> NoError ]
    ELSE IF result = "Successful(false)"
    THEN [ s |-> s, ok |-> FALSE, err |-> NoError ]
    ELSE [ s |-> s, ok |-> FALSE, err |-> "ERR_CREATE_DAO_UNSUCCESSFUL" ]

\* variant: a false DAO flag clears is_dao_created
create_dao_match_reset(s, dao_name, result) ==
    IF result = "Successful(true)"
    THEN [ s |-> [s EXCEPT !.total_funds = 0,
                           !.dao_name = dao_name,
                           !.is_dao_created = TRUE],
           ok |-> TRUE, err |-> NoError ]
    ELSE IF result = "Successful(false)"
    THEN [ s |-> [s EXCEPT !.is_dao_created = FALSE],
           ok |-> FALSE, err |-> NoError ]
    ELSE [ s |-> s, ok |-> FALSE, err |-> "ERR_CREATE_DAO_UNSUCCESSFUL" ]

create_dao_match(s, dao_name, result) ==
    IF result = "Successful(true)"
    THEN [ s |-> [s EXCEPT !.total_funds = 0,
                           !.dao_name = dao_name,
                           !.is_dao_created = TRUE],
           ok |-> TRUE, err |-> NoError ]
    ELSE IF result = "Successful(false)"
    THEN [ s |-> s, ok |-> FALSE, err |-> NoError ]
    ELSE [ s |-> s, ok |-> FALSE, err |-> "ERR_CREATE_DAO_UNSUCCESSFUL" ]

\* the second match
create_ft_match(result) ==
    IF result = "Successful(true)" THEN [ ok |-> TRUE, err |-> NoError ]
    ELSE IF result = "Successful(false)" THEN [ ok |-> FALSE, err |-> NoError ]
    ELSE [ ok |-> FALSE, err |-> "ERR_CREATE_FT_UNSUCCESSFUL" ]

\* the struct the host persists once the method has returned or panicked
\* variant: the struct mutated by the first match survives a later panic
callback_commit_always(s, dao, ft) == dao.s

callback_commit(s, dao, ft) ==
    IF dao.err = NoError /\ ft.err = NoError THEN dao.s ELSE s

\* variant: only the DAO flag is returned
callback_return_dao_only(dao, ft) ==
    IF dao.err # NoError \/ ft.err # NoError THEN "-"
    ELSE IF dao.ok THEN "true" ELSE "false"

callback_return(dao, ft) ==
    IF dao.err # NoError \/ ft.err # NoError THEN "-"
    ELSE IF dao.ok /\ ft.ok THEN "true" ELSE "false"

on_delegate_callback(dao_name, result0, result1) ==
    LET dao == create_dao_match(self, dao_name, result0)
        ft  == create_ft_match(result1)
        err == IF dao.err # NoError THEN dao.err ELSE ft.err
    IN
    /\ promises[dao_name] > 0
    /\ self' = callback_commit(self, dao, ft)
    /\ promises' = [promises EXCEPT ![dao_name] = @ - 1]
    /\ last' = Outcome("on_delegate_callback", current_account_id, 0, dao_name,
                       << result0, result1 >>, err, << >>, << >>, callback_return(dao, ft))
    /\ UNCHANGED <<now, withdrawn, held>>

\* the contract account calling the method directly: no promise results
on_delegate_callback_direct(dao_name) ==
    /\ last' = Outcome("on_delegate_callback", current_account_id, 0, dao_name,
                       << >>, "ERR_CALLBACK_METHOD", << >>, << >>, "-")
    /\ UNCHANGED <<self, now, promises, withdrawn, held>>

\* ------------------------------------------------------------------ clock
Tick ==
    /\ now < MaxTime
    /\ now' = now + 1
    /\ UNCHANGED <<self, promises, last, withdrawn, held>>

\* ---------------------------------------------------------- specification
Init ==
    /\ \E expires_at \in 0 .. MaxExpiresAt,
          funding_amount_limit \in 0 .. MaxFundingLimit :
            /\ new_error(funding_amount_limit) = NoError
            /\ self = new(expires_at, funding_amount_limit)
    /\ now = 0
    /\ promises = [n \in DaoNames |-> 0]
    /\ withdrawn = {}
    /\ held = 0
    /\ last = Outcome("new", current_account_id, 0, "", << >>, NoError,
                      << >>, << >>, "-")

Next ==
    \/ \E signer \in AccountId, attached \in 0 .. MaxAttached :
            deposit(signer, attached)
    \/ \E signer \in AccountId : withdraw(signer, 0)
    \/ \E dao_name \in DaoNames :
            delegate_funds(Caller, 0, dao_name)
    \/ \E dao_name \in DaoNames, result0 \in PromiseResult,
          result1 \in PromiseResult :
            on_delegate_callback(dao_name, result0, result1)
    \/ \E dao_name \in DaoNames : on_delegate_callback_direct(dao_name)
    \/ Tick

Spec == Init /\ [][Next]_vars

\* ================================================================ claims
SumDeposits(s) == SumOver(s.deposits, DOMAIN s.deposits)

\* a step of one method, with the inputs its outcome records
DepositStep == last'.op = "deposit" /\ deposit(last'.signer, last'.attached)

WithdrawStep == last'.op = "withdraw" /\ withdraw(last'.signer, last'.attached)

DelegateStep ==
    last'.op = "delegate_funds"
        /\ delegate_funds(last'.signer, last'.attached, last'.dao_name)

CallbackStep ==
    /\ last'.op = "on_delegate_callback"
    /\ Len(last'.results) = 2
    /\ on_delegate_callback(last'.dao_name, last'.results[1], last'.results[2])

OthersUnchanged(payee) ==
    \A q \in AccountId \ {payee} : deposits_of(self', q) = deposits_of(self, q)

\* C1 (as stated): in every reachable state the sum of all per-depositor
\* balances is less than or equal to total_funds.
C1_SumAtMostTotalFunds == SumDeposits(self) <= self.total_funds

\* C1 (amended): while delegation_state is NotStarted (is_dao_created false)
\* the sum of all per-depositor balances equals total_funds, hence is <= it.
C1_SumEqualsTotalUntilCreated ==
    ~self.is_dao_created => SumDeposits(self) = self.total_funds

C1_Witness ==
    /\ last.op = "on_delegate_callback"
    /\ last.err = NoError
    /\ ~self.is_dao_created
    /\ Cardinality(DOMAIN self.deposits) = 2
    /\ SumDeposits(self) = self.funding_amount_limit

\* C2: in every reachable state unpaid_funding_amount equals
\* funding_amount_limit minus total_funds and is never negative.
C2_UnpaidIsLimitMinusTotal ==
    /\ self.unpaid_funding_amount = self.funding_amount_limit - self.total_funds
    /\ self.unpaid_funding_amount >= 0

\* C3 (as stated): for every state and clock value, delegation is allowed
\* exactly when the escrow has expired and funding has been reached.
C3_DelegationIffExpiredAndReached ==
    \A t \in 0 .. MaxTime :
        is_delegation_allowed(self, t)
            <=> (has_contract_expired(self, t) /\ is_funding_reached(self))

\* C3 (amended): for every state and clock value, delegation is allowed
\* exactly when funding has been reached, expired or not; exactly one of
\* deposit, withdrawal and delegation is allowed, deposit being the phase
\* not expired and not reached, withdrawal the phase expired and not reached.
C3_DelegationIffReached ==
    \A t \in 0 .. MaxTime :
        LET D == is_deposit_allowed(self, t)
            W == is_withdrawal_allowed(self, t)
            G == is_delegation_allowed(self, t)
        IN
        /\ G <=> is_funding_reached(self)
        /\ ~(D /\ W) /\ ~(D /\ G) /\ ~(W /\ G)
        /\ D \/ W \/ G
        /\ D <=> (~has_contract_expired(self, t) /\ ~is_funding_reached(self))
        /\ W <=> (has_contract_expired(self, t) /\ ~is_funding_reached(self))

C3_Witness ==
    /\ last.op = "delegate_funds"
    /\ last.err = NoError
    /\ is_funding_reached(self)
    /\ ~has_contract_expired(self, now)

\* C4: every accepted deposit of amount a by caller p adds exactly a to p's
\* balance and to total_funds, takes exactly a from unpaid_funding_amount and
\* leaves every other balance unchanged (no wrap-around).
C4_DepositEffect ==
    [][LET p == last'.signer
           a == last'.attached
       IN
        (DepositStep /\ last'.err = NoError) =>
            /\ deposits_of(self', p) = deposits_of(self, p) + a
            /\ self'.total_funds = self.total_funds + a
            /\ self'.unpaid_funding_amount = self.unpaid_funding_amount - a
            /\ OthersUnchanged(p)]_vars

C4_Witness ==
    /\ last.op = "deposit"
    /\ last.err = NoError
    /\ deposits_of(self, last.signer) > last.attached
    /\ Cardinality(DOMAIN self.deposits) = 2

\* C5: a deposit whose amount exceeds unpaid_funding_amount is rejected and
\* changes nothing, and no deposit moves total_funds above the funding limit.
C5_DepositOverHeadroomRejected ==
    [][LET a == last'.attached IN
        DepositStep =>
            /\ a > self.unpaid_funding_amount =>
                    (last'.err # NoError /\ self' = self)
            /\ self.total_funds <= self.funding_amount_limit =>
                    self'.total_funds <= self.funding_amount_limit]_vars

C5_Witness ==
    /\ last.op = "deposit"
    /\ last.signer # current_account_id
    /\ last.err = "ERR_DEPOSIT_NOT_ALLOWED"
    /\ is_deposit_allowed(self, now)
    /\ last.attached > self.unpaid_funding_amount
    /\ self.total_funds > 0

\* C6: when withdrawal is allowed (expired, funding not reached) a withdraw by
\* p transfers exactly p's balance to p, zeroes it, takes that amount from
\* total_funds and adds it to unpaid_funding_amount, leaving other balances
\* unchanged; once every balance is zero, total_funds is 0.
C6_WithdrawEffect ==
    [][(WithdrawStep /\ is_withdrawal_allowed(self, now)) =>
            LET p == last'.signer
                payment == deposits_of(self, last'.signer)
            IN
            /\ last'.transfers = << [to |-> p, amount |-> payment] >>
            /\ deposits_of(self', p) = 0
            /\ self'.total_funds = self.total_funds - payment
            /\ self'.unpaid_funding_amount = self.unpaid_funding_amount + payment
            /\ OthersUnchanged(p)
            /\ (\A q \in AccountId : deposits_of(self', q) = 0)
                    => self'.total_funds = 0]_vars

\* C7: a withdraw by a caller who has already withdrawn and not deposited
\* since transfers amount 0 and leaves total_funds, unpaid_funding_amount and
\* every balance unchanged.
C7_WithdrawIdempotent ==
    [][LET p == last'.signer IN
        (WithdrawStep /\ p \in withdrawn) =>
            /\ \A i \in DOMAIN last'.transfers : last'.transfers[i].amount = 0
            /\ last'.err = NoError =>
                    last'.transfers = << [to |-> p, amount |-> 0] >>
            /\ self'.total_funds = self.total_funds
            /\ self'.unpaid_funding_amount = self.unpaid_funding_amount
            /\ \A q \in AccountId : deposits_of(self', q) = deposits_of(self, q)]_vars

C7_Witness ==
    /\ last.op = "withdraw"
    /\ last.err = NoError
    /\ last.again
    /\ last.transfers = << [to |-> last.signer, amount |-> 0] >>
    /\ self.total_funds > 0
    /\ ~self.is_dao_created

\* C8: delegate_funds is accepted only when neither deposit nor withdrawal is
\* allowed; otherwise it fails with ERR_DELEGATE_NOT_ALLOWED, issues no
\* remote call and schedules no callback.
C8_DelegateOnlyWhenAllowed ==
    [][DelegateStep =>
            /\ (is_deposit_allowed(self, now) \/ is_withdrawal_allowed(self, now)) =>
                    /\ last'.err = "ERR_DELEGATE_NOT_ALLOWED"
                    /\ last'.calls = << >>
                    /\ promises' = promises
            /\ last'.err = NoError =>
                    /\ ~is_deposit_allowed(self, now)
                    /\ ~is_withdrawal_allowed(self, now)
                    /\ Len(last'.calls) = 3]_vars

C8_Witness ==
    /\ last.op = "delegate_funds"
    /\ last.err = "ERR_DELEGATE_NOT_ALLOWED"
    /\ last.calls = << >>
    /\ is_withdrawal_allowed(self, now)
    /\ self.total_funds > 0

\* C9: a callback with two Successful results whose DAO flag is true leaves
\* total_funds 0, is_dao_created true, dao_name equal to the name passed, and
\* every balance as it was before the call.
C9_CallbackCreatesDao ==
    [][(CallbackStep /\ last'.results[1] = "Successful(true)"
            /\ last'.results[2] # "Failed") =>
            /\ last'.err = NoError
            /\ self'.total_funds = 0
            /\ self'.is_dao_created
            /\ self'.dao_name = last'.dao_name
            /\ self'.deposits = self.deposits]_vars

C9_Witness ==
    /\ last.op = "on_delegate_callback"
    /\ last.results = << "Successful(true)", "Successful(false)" >>
    /\ self.total_funds = 0
    /\ self.is_dao_created
    /\ self.dao_name = last.dao_name
    /\ Cardinality(DOMAIN self.deposits) = 2
    /\ SumDeposits(self) = self.funding_amount_limit

\* C10: a callback one of whose results is Failed aborts and leaves
\* total_funds, is_dao_created and dao_name unchanged, also when the DAO
\* result is Successful(true) and only the token result is Failed.
C10_CallbackFailureAborts ==
    [][(CallbackStep
            /\ (last'.results[1] = "Failed" \/ last'.results[2] = "Failed")) =>
            /\ last'.err \in {"ERR_CREATE_DAO_UNSUCCESSFUL",
                              "ERR_CREATE_FT_UNSUCCESSFUL"}
            /\ last'.ret = "-"
            /\ self'.total_funds = self.total_funds
            /\ self'.is_dao_created = self.is_dao_created
            /\ self'.dao_name = self.dao_name]_vars

C10_Witness ==
    /\ last.op = "on_delegate_callback"
    /\ last.results = << "Successful(true)", "Failed" >>
    /\ last.err = "ERR_CREATE_FT_UNSUCCESSFUL"
    /\ ~self.is_dao_created
    /\ self.dao_name = ""
    /\ self.total_funds = self.funding_amount_limit

Successful == {"Successful(true)", "Successful(false)"}

\* C11: a callback with two Successful results whose DAO flag is false
\* returns false and mutates nothing, is_dao_created stays false, and
\* afterwards delegation is still allowed, so a new delegate_funds call is
\* accepted.
C11_FalseDaoFlagAllowsRetry ==
    [][(CallbackStep /\ last'.results[1] = "Successful(false)"
            /\ last'.results[2] \in Successful) =>
            /\ last'.ret = "false"
            /\ self' = self
            /\ ~self'.is_dao_created
            /\ is_delegation_allowed(self', now')
            /\ delegate_funds_error(self', now') = NoError]_vars

\* C12: for two Successful results the callback returns the conjunction of
\* the DAO flag and the token flag, and the token flag does not influence the
\* contract state: with DAO flag true, total_funds becomes 0 and
\* is_dao_created true whatever the token flag; with DAO flag false nothing
\* changes.
C12_TokenFlagOnlyInReturn ==
    [][LET r0 == last'.results[1]
           r1 == last'.results[2]
       IN
        (CallbackStep /\ r0 \in Successful /\ r1 \in Successful) =>
            /\ last'.err = NoError
            /\ last'.ret = "true"
                    <=> (r0 = "Successful(true)" /\ r1 = "Successful(true)")
            /\ last'.ret \in {"true", "false"}
            /\ r0 = "Successful(true)" =>
                    (self'.total_funds = 0 /\ self'.is_dao_created)
            /\ r0 = "Successful(false)" => self' = self]_vars

C12_Witness ==
    /\ last.op = "on_delegate_callback"
    /\ last.results = << "Successful(true)", "Successful(false)" >>
    /\ last.ret = "false"
    /\ self.total_funds = 0
    /\ self.is_dao_created
    /\ SumDeposits(self) > 0

\* C13: in every state where an accepted delegate_funds call still awaits its
\* callback, deposit and withdrawal are not allowed and delegation is, at the
\* current and every later clock value, so every deposit and withdraw
\* attempted then is rejected.
C13_NoWindowWhilePending ==
    [][Pending > 0 =>
        /\ \A t \in now .. MaxTime :
                /\ ~is_deposit_allowed(self, t)
                /\ ~is_withdrawal_allowed(self, t)
                /\ is_delegation_allowed(self, t)
        /\ DepositStep => last'.err # NoError
        /\ WithdrawStep => last'.err # NoError]_vars

\* C14: is_dao_created starts false, changes only in a step of
\* on_delegate_callback, and once true stays true in every later state.
C14_DelegationStateMonotonic ==
    /\ ~self.is_dao_created
    /\ [][/\ self.is_dao_created => self'.is_dao_created
          /\ self'.is_dao_created # self.is_dao_created =>
                CallbackStep]_vars

C14_Witness ==
    /\ self.is_dao_created
    /\ last.op = "on_delegate_callback"
    /\ last.results = << "Successful(false)", "Successful(true)" >>
    /\ last.err = NoError

\* C15: dao_name is assigned at most once, and only by on_delegate_callback:
\* once it is set no later step changes it.
C15_DaoNameSetOnce ==
    [][/\ self.dao_name # "" => self'.dao_name = self.dao_name
       /\ self'.dao_name # self.dao_name =>
            CallbackStep]_vars

\* C16: once is_dao_created is true, every delegate_funds call is rejected
\* with ERR_DELEGATE_NOT_ALLOWED.
C16_NoDelegationAfterCreated ==
    [][(DelegateStep /\ self.is_dao_created) =>
            last'.err = "ERR_DELEGATE_NOT_ALLOWED"]_vars

\* C17: distinct failure conditions of deposit surface distinct error codes:
\* two deposit calls that fail different preconditions (self-deposit, zero
\* amount, outside the open phase, exceeding the headroom) never report the
\* same code.
C17_DistinctErrorCodes ==
    \A t1 \in 0 .. MaxTime, p1 \in AccountId, a1 \in 0 .. MaxAttached :
        \A t2 \in 0 .. MaxTime, p2 \in AccountId, a2 \in 0 .. MaxAttached :
            deposit_condition(self, t1, p1, a1) # deposit_condition(self, t2, p2, a2)
                => deposit_error(self, t1, p1, a1) # deposit_error(self, t2, p2, a2)

\* C18 (as stated): an accepted deposit that brings total_funds to exactly
\* the funding limit makes is_deposit_allowed false at once, at every clock
\* value, and every further deposit is rejected with ERR_DEPOSIT_NOT_ALLOWED.
C18_LimitReachedClosesDeposits ==
    [][LET p == last'.signer
           a == last'.attached
       IN
        DepositStep =>
            /\ (last'.err = NoError
                    /\ self'.total_funds = self'.funding_amount_limit) =>
                    \A t \in 0 .. MaxTime : ~is_deposit_allowed(self', t)
            /\ (is_funding_reached(self) \/ self.is_dao_created) =>
                    last'.err = "ERR_DEPOSIT_NOT_ALLOWED"]_vars

\* C18 (amended): an accepted deposit that brings total_funds to exactly the
\* funding limit makes is_deposit_allowed false at once, at every clock value,
\* and every further deposit is rejected and changes nothing, with
\* ERR_DEPOSIT_NOT_ALLOWED unless it is a self-deposit or a zero-amount
\* deposit, which fail with their own codes.
C18_LimitReachedRejectsDeposits ==
    [][LET p == last'.signer
           a == last'.attached
       IN
        DepositStep =>
            /\ (last'.err = NoError
                    /\ self'.total_funds = self'.funding_amount_limit) =>
                    \A t \in 0 .. MaxTime : ~is_deposit_allowed(self', t)
            /\ (is_funding_reached(self) \/ self.is_dao_created) =>
                    /\ last'.err # NoError
                    /\ self' = self
                    /\ (p # current_account_id /\ a > 0) =>
                            last'.err = "ERR_DEPOSIT_NOT_ALLOWED"
                    /\ p = current_account_id =>
                            last'.err = "ERR_OWNER_SHOULD_NOT_DEPOSIT"
                    /\ (p # current_account_id /\ a = 0) =>
                            last'.err = "ERR_DEPOSIT_SHOULD_NOT_BE_0"]_vars

C18_Witness ==
    /\ last.op = "deposit"
    /\ last.err = "ERR_DEPOSIT_NOT_ALLOWED"
    /\ last.signer # current_account_id
    /\ last.attached > 0
    /\ self.total_funds = self.funding_amount_limit
    /\ Cardinality(DOMAIN self.deposits) = 2
    /\ \A q \in DOMAIN self.deposits : self.deposits[q] > 0
    /\ ~has_contract_expired(self, now)
    /\ ~self.is_dao_created

\* C19: withdraw is accepted only when withdrawal is allowed (expired and
\* funding not reached); otherwise it fails with ERR_WITHDRAWAL_NOT_ALLOWED,
\* issues no transfer and leaves the contract state unchanged.
C19_WithdrawOnlyWhenAllowed ==
    [][WithdrawStep =>
            /\ ~(now > self.expires_at
                    /\ self.total_funds < self.funding_amount_limit) =>
                    /\ last'.err = "ERR_WITHDRAWAL_NOT_ALLOWED"
                    /\ last'.transfers = << >>
                    /\ self' = self
            /\ last'.err = NoError =>
                    /\ now > self.expires_at
                    /\ self.total_funds < self.funding_amount_limit]_vars

C19_Witness ==
    /\ last.op = "withdraw"
    /\ last.err = "ERR_WITHDRAWAL_NOT_ALLOWED"
    /\ last.transfers = << >>
    /\ deposits_of(self, last.signer) > 0
    /\ has_contract_expired(self, now)
    /\ is_funding_reached(self)
    /\ ~self.is_dao_created

\* C20 (as stated): the escrow has expired exactly when now >= expires_at; at
\* now = expires_at, with funding not reached, a deposit is rejected and a
\* withdraw is accepted.
C20_ExpiredAtDeadline ==
    [][/\ has_contract_expired(self, now) <=> now >= self.expires_at
       /\ (DepositStep /\ now = self.expires_at) => last'.err # NoError
       /\ (WithdrawStep /\ now = self.expires_at
                /\ ~is_funding_reached(self)) => last'.err = NoError]_vars

\* C20 (amended): the escrow has expired exactly when now > expires_at; at
\* now = expires_at it is not yet expired, so, with funding not reached, a
\* deposit by another account of a non-zero amount within the headroom is
\* accepted and every withdraw is rejected.
C20_ExpiredAfterDeadline ==
    [][/\ has_contract_expired(self, now) <=> now > self.expires_at
       /\ (DepositStep /\ now = self.expires_at
                /\ ~is_funding_reached(self)
                /\ last'.signer # current_account_id /\ last'.attached > 0
                /\ last'.attached <= self.unpaid_funding_amount)
            => last'.err = NoError
       /\ (WithdrawStep /\ now = self.expires_at) =>
                last'.err = "ERR_WITHDRAWAL_NOT_ALLOWED"]_vars

C20_Witness ==
    /\ last.op = "deposit"
    /\ last.err = NoError
    /\ self.expires_at = 0
    /\ now = 0
    /\ deposits_of(self, last.signer) = last.attached

\* C21: an accepted delegate_funds changes no field of the contract; it
\* issues exactly three calls: create_dao to the DAO factory with
\* total_funds less FT_ATTACHED_DEPOSIT attached and every key of the
\* deposits table as roster, create_ft to the token factory with
\* FT_ATTACHED_DEPOSIT attached, and one on_delegate_callback to the
\* contract itself, which is scheduled once more than before.
C21_DelegateOnlyIssuesCalls ==
    [][ (DelegateStep /\ last'.err = NoError) =>
            /\ self' = self
            /\ Len(last'.calls) = 3
            /\ last'.calls[1].to = dao_factory_account_id
            /\ last'.calls[1].method = "create_dao"
            /\ last'.calls[1].dao_name = last'.dao_name
            /\ last'.calls[1].attached = self.total_funds - FT_ATTACHED_DEPOSIT
            /\ last'.calls[1].deposits = DOMAIN self.deposits
            /\ last'.calls[2].to = ft_factory_account_id
            /\ last'.calls[2].method = "create_ft"
            /\ last'.calls[2].attached = FT_ATTACHED_DEPOSIT
            /\ last'.calls[3].to = current_account_id
            /\ last'.calls[3].method = "on_delegate_callback"
            /\ last'.calls[3].attached = 0
            /\ last'.transfers = << >>
            /\ promises' = [promises EXCEPT ![last'.dao_name] = @ + 1]
      ]_vars

\* an accepted delegation of a contract with two depositors and more than
\* the reserve in total_funds
C21_Witness ==
    /\ last.op = "delegate_funds"
    /\ last.err = NoError
    /\ Cardinality(DOMAIN self.deposits) = 2
    /\ last.calls[1].attached > 0
    /\ last.calls[1].deposits = DOMAIN self.deposits

\* C22: conservation of funds: in every reachable state the value that has
\* left the contract (withdraw transfers and the amounts attached to the
\* create_dao and create_ft calls) is at most the value deposited, also when
\* delegate_funds is accepted again before a callback has run.
C22_OutflowAtMostDeposited == held >= 0

\* C23: funds are delegated or refunded, never both: from a state where
\* is_dao_created holds, no withdraw transfers a non-zero amount and
\* total_funds is 0 after every step.
C23_NoRefundAfterCreated ==
    [][ self.is_dao_created =>
            /\ self'.total_funds = 0
            /\ WithdrawStep =>
                 \A i \in 1 .. Len(last'.transfers) : last'.transfers[i].amount = 0
      ]_vars

\* C24: delegate_funds never fails with ERR_TOTAL_FUNDS_OVERFLOW: as the
\* constructor rejects a funding limit below FT_ATTACHED_DEPOSIT, in every
\* reachable state where delegation is allowed total_funds is at least
\* FT_ATTACHED_DEPOSIT, so the checked subtraction has a result.
C24_ReserveAlwaysCovered ==
    /\ is_delegation_allowed(self, now) =>
            /\ self.total_funds >= FT_ATTACHED_DEPOSIT
            /\ checked_sub(self.total_funds, FT_ATTACHED_DEPOSIT) # None
    /\ last.err # "ERR_TOTAL_FUNDS_OVERFLOW"

\* delegation accepted with total_funds exactly FT_ATTACHED_DEPOSIT, the
\* smallest amount a constructed contract can reach its limit with
C24_Witness ==
    /\ last.op = "delegate_funds"
    /\ last.err = NoError
    /\ is_delegation_allowed(self, now)
    /\ self.funding_amount_limit = FT_ATTACHED_DEPOSIT
    /\ self.total_funds = FT_ATTACHED_DEPOSIT

\* C25: the deposit phase is never entered again: with a clock that only
\* advances, once is_deposit_allowed is false it is false after every step,
\* whatever withdraw, delegate_funds or on_delegate_callback follows.
C25_DepositPhaseNeverReentered ==
    [][ ~is_deposit_allowed(self, now) => ~is_deposit_allowed(self', now') ]_vars

====
